---- MODULE Spec2Model ----
(***************************************************************************)
(* GenZyFits catalog API (src/main.py): the request handlers over a        *)
(* document store with the collections product, review and order.          *)
(*                                                                         *)
(* Representation.                                                         *)
(*   - A Python str is a sequence of one-character strings, so that        *)
(*     ObjectId parsing (length and hex-digit test, case folding) is       *)
(*     computed and not assumed.  An ObjectId is the sequence of the       *)
(*     values, 0..15, of its 24 hex digits; str(ObjectId) writes them in   *)
(*     lower case.                                                         *)
(*   - Optional[T] is a sequence of length 0 (None) or 1.                  *)
(*   - A float amount of money is an integer number of thousandths         *)
(*     (89.0 is 89000), so round(x, 2) is a real operation on it; the      *)
(*     representation error of binary floating point is not modelled.      *)
(*   - A collection is the sequence of its documents in insertion order.   *)
(***************************************************************************)
EXTENDS Integers, Sequences, FiniteSets, TLC

VARIABLES
    db,        \* the store handle of `from database import db`: "None" or "conn"
    product,   \* db["product"]
    review,    \* db["review"]
    order,     \* db["order"]
    nextId,    \* the store's generator of fresh ObjectIds
    req,       \* the request handled last: [op, arg]
    resp,      \* its response: [status, body]
    ops,       \* the store operations issued while handling it
    pc,        \* SpecConc: where each in-flight POST /seed request stands
    seeded     \* SpecConc: what each finished POST /seed request reported

vars == <<db, product, review, order, nextId, req, resp, ops, pc, seeded>>

store == <<product, review, order, nextId>>

----------------------------------------------------------------------------
(* Bounds of the model *)

\* documents (reviews and orders together) the requests may create
MaxDocs == 1

\* concurrent POST /seed requests of SpecConc
NumSeedRequests == 3

----------------------------------------------------------------------------
(* Strings and ObjectIds *)

\* number of hex digits of an ObjectId string
IdLen == 24

HexLower == <<"0", "1", "2", "3", "4", "5", "6", "7", "8", "9",
              "a", "b", "c", "d", "e", "f">>

HexUpper == <<"0", "1", "2", "3", "4", "5", "6", "7", "8", "9",
              "A", "B", "C", "D", "E", "F">>

Range(s) == {s[i] : i \in DOMAIN s}

\* the characters that are hex digits
HexDigits == Range(HexLower) \cup Range(HexUpper)

IsHexDigit(c) == c \in HexDigits

\* the value, 0..15, of each hex digit, whatever its case
HexValue ==
    [c \in HexDigits |->
        IF c \in Range(HexLower)
        THEN (CHOOSE i \in DOMAIN HexLower : HexLower[i] = c) - 1
        ELSE (CHOOSE i \in DOMAIN HexUpper : HexUpper[i] = c) - 1]

\* ObjectId(id_str): the id, or InvalidId
ParseObjectId(s) ==
    IF Len(s) = IdLen /\ \A i \in DOMAIN s : IsHexDigit(s[i])
    THEN [ok |-> TRUE, val |-> [i \in DOMAIN s |-> HexValue[s[i]]]]
    ELSE [ok |-> FALSE, val |-> <<>>]

\* oid, were a malformed id reported as a missing document
oid_NotFound(id_str) ==
    LET r == ParseObjectId(id_str)
    IN  IF r.ok THEN [status |-> 200, val |-> r.val]
                ELSE [status |-> 404, val |-> <<>>]

\* oid(id_str): the ObjectId, or HTTPException(400)
oid(id_str) ==
    LET r == ParseObjectId(id_str)
    IN  IF r.ok THEN [status |-> 200, val |-> r.val]
                ELSE [status |-> 400, val |-> <<>>]

\* str(ObjectId): its 24 hex digits in lower case
StrOfId(id) == [i \in DOMAIN id |-> HexLower[id[i] + 1]]

\* the n-th ObjectId the store generates
NewObjectId(n) ==
    [i \in 1..IdLen |->
        IF i = IdLen THEN n % 16
        ELSE IF i = IdLen - 1 THEN (n \div 16) % 16
        ELSE 0]

\* s.upper()
Upper(s) ==
    [i \in DOMAIN s |->
        IF s[i] \in Range(HexLower) THEN HexUpper[HexValue[s[i]] + 1] ELSE s[i]]

None == <<>>
Some(x) == <<x>>

\* Python truthiness of an Optional[str]
Truthy(opt) == opt # None /\ opt[1] # ""

----------------------------------------------------------------------------
(* Store access *)

\* collection.find_one({"_id": id}): None or the first document with that _id
FindOne(coll, id) ==
    LET S == {i \in DOMAIN coll : coll[i]._id = id}
    IN  IF S = {} THEN None
        ELSE Some(coll[CHOOSE i \in S : \A j \in S : i <= j])

\* count_documents, were it sent to the review collection
CountDocuments_WrongCollection(coll) == Len(review)

\* collection.count_documents({})
CountDocuments(coll) == Len(coll)

\* one key of an equality filter against a document: a list field matches
\* a value it contains, any other field a value it equals
FieldMatches(doc, key, val) ==
    IF key = "tags"
    THEN \E i \in DOMAIN doc.tags : doc.tags[i] = val
    ELSE doc[key] = val

DocMatches(doc, filt) == \A k \in DOMAIN filt : FieldMatches(doc, k, filt[k])

RECURSIVE SelectDocs(_, _)
SelectDocs(coll, filt) ==
    IF coll = <<>> THEN <<>>
    ELSE LET rest == SelectDocs(Tail(coll), filt)
         IN  IF DocMatches(Head(coll), filt) THEN <<Head(coll)>> \o rest ELSE rest

\* get_documents(collection_name, filter)
get_documents(coll, filt) == SelectDocs(coll, filt)

\* create_document(collection_name, document): the collection afterwards;
\* the generated id, NewObjectId(n), is returned as a string
create_document(coll, doc, n) == Append(coll, doc @@ [_id |-> NewObjectId(n)])

----------------------------------------------------------------------------
(* POST /seed *)

sample == <<
    [title |-> "Neon Flux Hoodie", price |-> 89000, category |-> "Streetwear",
     tags |-> <<"best", "seasonal">>],
    [title |-> "Ripple Tee", price |-> 39000, category |-> "Casual",
     tags |-> <<"new">>],
    [title |-> "Core Knit Crew", price |-> 69000, category |-> "Essentials",
     tags |-> <<"best">>] >>

RECURSIVE InsertSample(_, _, _)
\* for p in sample: create_document("product", p), from the i-th on
InsertSample(coll, i, n) ==
    IF i > Len(sample) THEN coll
    ELSE InsertSample(create_document(coll, sample[i], n), i + 1, n + 1)

Procs == 1..NumSeedRequests

\* the handlers, were the test of the handle left out
DbIsNone_Unchecked == FALSE

\* `db is None`, the test that opens every handler
DbIsNone == db = "None"

seed_products ==
    /\ req' = [op |-> "seed", arg |-> None]
    /\ UNCHANGED <<db, review, order, pc, seeded>>
    /\ IF DbIsNone
       THEN /\ resp' = [status |-> 500, body |-> "Database not available"]
            /\ ops' = 0
            /\ UNCHANGED <<product, nextId>>
       ELSE IF CountDocuments(product) > 0
       THEN /\ resp' = [status |-> 200, body |-> [seeded |-> FALSE, message |-> "Products already exist"]]
            /\ ops' = 1
            /\ UNCHANGED <<product, nextId>>
       ELSE /\ product' = InsertSample(product, 1, nextId)
            /\ nextId' = nextId + Len(sample)
            /\ resp' = [status |-> 200,
                        body |-> [seeded |-> TRUE, count |-> Len(sample)]]
            /\ ops' = 1 + Len(sample)

----------------------------------------------------------------------------
(* POST /seed, statement by statement, for requests served concurrently:   *)
(* count_documents and each create_document is one store operation.        *)

\* count = db["product"].count_documents({}); if count > 0: return
SeedCount(p) ==
    /\ pc[p].at = "start"
    /\ IF DbIsNone
       THEN /\ pc' = [pc EXCEPT ![p] = [at |-> "done", i |-> 0]]
            /\ seeded' = [seeded EXCEPT ![p] = "500"]
       ELSE IF CountDocuments(product) > 0
       THEN /\ pc' = [pc EXCEPT ![p] = [at |-> "done", i |-> 0]]
            /\ seeded' = [seeded EXCEPT ![p] = "False"]
       ELSE /\ pc' = [pc EXCEPT ![p] = [at |-> "loop", i |-> 1]]
            /\ UNCHANGED seeded
    /\ UNCHANGED <<db, store, req, resp, ops>>

\* create_document("product", p), one turn of the loop
SeedInsert(p) ==
    /\ pc[p].at = "loop"
    /\ pc[p].i <= Len(sample)
    /\ product' = create_document(product, sample[pc[p].i], nextId)
    /\ nextId' = nextId + 1
    /\ pc' = [pc EXCEPT ![p].i = @ + 1]
    /\ UNCHANGED <<db, review, order, req, resp, ops, seeded>>

\* return {"seeded": True, "count": len(sample)}
SeedReturn(p) ==
    /\ pc[p].at = "loop"
    /\ pc[p].i > Len(sample)
    /\ pc' = [pc EXCEPT ![p] = [at |-> "done", i |-> 0]]
    /\ seeded' = [seeded EXCEPT ![p] = "True"]
    /\ UNCHANGED <<db, store, req, resp, ops>>

----------------------------------------------------------------------------
(* GET /products, GET /products/{product_id} *)

\* p["_id"] = str(p.get("_id")) for every document of a result list
RECURSIVE SerializeIds(_)
SerializeIds(docs) ==
    IF docs = <<>> THEN <<>>
    ELSE <<[Head(docs) EXCEPT !._id = StrOfId(@)]>> \o SerializeIds(Tail(docs))

\* the filter, were the category to replace the tag instead of joining it
ProductFilter_LastWins(tag, category) ==
    IF Truthy(category) THEN ("category" :> category[1])
    ELSE IF Truthy(tag) THEN ("tags" :> tag[1])
    ELSE <<>>

\* the filter dictionary list_products builds
ProductFilter(tag, category) ==
    (IF Truthy(category) THEN ("category" :> category[1]) ELSE <<>>)
    @@ (IF Truthy(tag) THEN ("tags" :> tag[1]) ELSE <<>>)

list_products(tag, category) ==
    /\ req' = [op |-> "list_products", arg |-> [tag |-> tag, category |-> category]]
    /\ UNCHANGED <<db, store, pc, seeded>>
    /\ IF DbIsNone
       THEN /\ resp' = [status |-> 200, body |-> <<>>]
            /\ ops' = 0
       ELSE /\ resp' = [status |-> 200,
                        body |-> SerializeIds(
                            get_documents(product, ProductFilter(tag, category)))]
            /\ ops' = 1

get_product(product_id) ==
    /\ req' = [op |-> "get_product", arg |-> product_id]
    /\ UNCHANGED <<db, store, pc, seeded>>
    /\ IF DbIsNone
       THEN /\ resp' = [status |-> 500, body |-> "Database not available"]
            /\ ops' = 0
       ELSE LET id == oid(product_id)
                doc == FindOne(product, id.val)
            IN  IF id.status # 200
                THEN /\ resp' = [status |-> id.status, body |-> "Invalid id"]
                     /\ ops' = 0
                ELSE IF doc = None
                THEN /\ resp' = [status |-> 404, body |-> "Product not found"]
                     /\ ops' = 1
                ELSE /\ resp' = [status |-> 200,
                                 body |-> [doc[1] EXCEPT !._id = StrOfId(@)]]
                     /\ ops' = 1

----------------------------------------------------------------------------
(* GET /reviews/{product_id}, POST /reviews *)

get_reviews(product_id) ==
    /\ req' = [op |-> "get_reviews", arg |-> product_id]
    /\ UNCHANGED <<db, store, pc, seeded>>
    /\ IF DbIsNone
       THEN /\ resp' = [status |-> 200, body |-> <<>>]
            /\ ops' = 0
       ELSE /\ resp' = [status |-> 200,
                        body |-> SerializeIds(
                            get_documents(review, ("product_id" :> product_id)))]
            /\ ops' = 1

\* payload.model_dump() of a ReviewIn
ReviewDump(payload) ==
    [product_id |-> payload.product_id, user_name |-> payload.user_name,
     rating |-> payload.rating, comment |-> payload.comment]

\* create_review, were the id only parsed and the product not looked up
create_review_NoLookup(payload) ==
    /\ req' = [op |-> "create_review", arg |-> payload]
    /\ UNCHANGED <<db, product, order, pc, seeded>>
    /\ IF DbIsNone
       THEN /\ resp' = [status |-> 500, body |-> "Database not available"]
            /\ ops' = 0
            /\ UNCHANGED <<review, nextId>>
       ELSE LET id == oid(payload.product_id)
            IN  IF id.status # 200
                THEN /\ resp' = [status |-> id.status, body |-> "Invalid id"]
                     /\ ops' = 0
                     /\ UNCHANGED <<review, nextId>>
                ELSE /\ Len(review) + Len(order) < MaxDocs
                     /\ review' = create_document(review, ReviewDump(payload), nextId)
                     /\ nextId' = nextId + 1
                     /\ resp' = [status |-> 200,
                                 body |-> [_id |-> StrOfId(NewObjectId(nextId))]]
                     /\ ops' = 1

create_review(payload) ==
    /\ req' = [op |-> "create_review", arg |-> payload]
    /\ UNCHANGED <<db, product, order, pc, seeded>>
    /\ IF DbIsNone
       THEN /\ resp' = [status |-> 500, body |-> "Database not available"]
            /\ ops' = 0
            /\ UNCHANGED <<review, nextId>>
       ELSE LET id == oid(payload.product_id)
            IN  IF id.status # 200
                THEN /\ resp' = [status |-> id.status, body |-> "Invalid id"]
                     /\ ops' = 0
                     /\ UNCHANGED <<review, nextId>>
                ELSE IF FindOne(product, id.val) = None
                THEN /\ resp' = [status |-> 400, body |-> "Invalid product"]
                     /\ ops' = 1
                     /\ UNCHANGED <<review, nextId>>
                ELSE /\ Len(review) + Len(order) < MaxDocs
                     /\ review' = create_document(review, ReviewDump(payload), nextId)
                     /\ nextId' = nextId + 1
                     /\ resp' = [status |-> 200,
                                 body |-> [_id |-> StrOfId(NewObjectId(nextId))]]
                     /\ ops' = 2

----------------------------------------------------------------------------
(* POST /checkout *)

\* round(x, 2) of an amount in thousandths: to the nearest hundredth, a tie
\* to the even one, symmetric about zero
Round2(x) ==
    LET a == IF x < 0 THEN -x ELSE x
        q == a \div 10
        r == a % 10
        up == r > 5 \/ (r = 5 /\ q % 2 = 1)
        m == (IF up THEN q + 1 ELSE q) * 10
    IN  IF x < 0 THEN -m ELSE m

\* the line, were the quantity left out of its total
LineItem_UnitOnly(prod, item) ==
    [title |-> prod.title, size |-> item.size, quantity |-> item.quantity,
     unit_price |-> prod.price, line_total |-> prod.price]

\* one line of the order document
LineItem(prod, item) ==
    [title |-> prod.title, size |-> item.size, quantity |-> item.quantity,
     unit_price |-> prod.price, line_total |-> prod.price * item.quantity]

RECURSIVE CheckoutLoop_SkipsInvalid(_, _, _, _, _)
\* the loop, were an item that does not resolve passed over (continue)
\* instead of ending the request
CheckoutLoop_SkipsInvalid(items, i, total, line_items, n) ==
    IF i > Len(items)
    THEN [status |-> 200, total |-> total, line_items |-> line_items, ops |-> n,
          detail |-> ""]
    ELSE LET item == items[i]
             id == oid(item.product_id)
             prod == FindOne(product, id.val)
         IN  IF id.status # 200
             THEN CheckoutLoop_SkipsInvalid(items, i + 1, total, line_items, n)
             ELSE IF prod = None
             THEN CheckoutLoop_SkipsInvalid(items, i + 1, total, line_items, n + 1)
             ELSE CheckoutLoop_SkipsInvalid(items, i + 1,
                               total + LineItem(prod[1], item).line_total,
                               Append(line_items, LineItem(prod[1], item)), n + 1)

RECURSIVE CheckoutLoop(_, _, _, _, _)
\* for item in req.items, from the i-th on, with the total, the line items
\* and the store operations so far
CheckoutLoop(items, i, total, line_items, n) ==
    IF i > Len(items)
    THEN [status |-> 200, total |-> total, line_items |-> line_items, ops |-> n,
          detail |-> ""]
    ELSE LET item == items[i]
             id == oid(item.product_id)
             prod == FindOne(product, id.val)
         IN  IF id.status # 200
             THEN [status |-> id.status, total |-> total, line_items |-> line_items,
                   ops |-> n, detail |-> "Invalid id"]
             ELSE IF prod = None
             THEN [status |-> 400, total |-> total, line_items |-> line_items,
                   ops |-> n + 1, detail |-> "Invalid product"]
             ELSE CheckoutLoop(items, i + 1,
                               total + LineItem(prod[1], item).line_total,
                               Append(line_items, LineItem(prod[1], item)), n + 1)

fast_checkout(r) ==
    /\ req' = [op |-> "checkout", arg |-> r]
    /\ UNCHANGED <<db, product, review, pc, seeded>>
    /\ IF DbIsNone
       THEN /\ resp' = [status |-> 500, body |-> "Database not available"]
            /\ ops' = 0
            /\ UNCHANGED <<order, nextId>>
       ELSE LET res == CheckoutLoop(r.items, 1, 0, <<>>, 0)
                order_doc == [email |-> r.email, items |-> res.line_items,
                              total |-> Round2(res.total), status |-> "created"]
            IN  IF res.status # 200
                THEN /\ resp' = [status |-> res.status, body |-> res.detail]
                     /\ ops' = res.ops
                     /\ UNCHANGED <<order, nextId>>
                ELSE /\ Len(review) + Len(order) < MaxDocs
                     /\ order' = create_document(order, order_doc, nextId)
                     /\ nextId' = nextId + 1
                     /\ resp' = [status |-> 200,
                                 body |-> [order_id |-> StrOfId(NewObjectId(nextId)),
                                           total |-> Round2(res.total)]]
                     /\ ops' = res.ops + 1

----------------------------------------------------------------------------
(* GET /, GET /test *)

read_root ==
    /\ req' = [op |-> "read_root", arg |-> None]
    /\ resp' = [status |-> 200, body |-> [message |-> "GenZyFits API running"]]
    /\ ops' = 0
    /\ UNCHANGED <<db, store, pc, seeded>>

test_database ==
    /\ req' = [op |-> "test", arg |-> None]
    /\ resp' = [status |-> 200,
                body |-> [backend |-> "Running",
                          database |-> IF DbIsNone THEN "Not Available"
                                                      ELSE "Connected"]]
    /\ ops' = IF DbIsNone THEN 0 ELSE 1
    /\ UNCHANGED <<db, store, pc, seeded>>

----------------------------------------------------------------------------
(* Requests the clients send *)

IdA == StrOfId(NewObjectId(10))
IdB == StrOfId(NewObjectId(11))
IdC == StrOfId(NewObjectId(12))
IdAbsent == StrOfId(NewObjectId(255))
IdMalformed == [IdA EXCEPT ![IdLen] = "g"]
IdShort == SubSeq(IdA, 1, IdLen - 1)

IdInputs == {IdA, Upper(IdB), IdAbsent, IdMalformed, IdShort}

TagInputs == {None, Some(""), Some("best")}
CategoryInputs == {None, Some(""), Some("Casual"), Some("casual")}

ReviewInputs ==
    {[product_id |-> i, user_name |-> "zed", rating |-> r, comment |-> None] :
        i \in {Upper(IdB), IdAbsent, IdMalformed}, r \in {0, 3, 6}}

ItemInputs ==
    { [product_id |-> IdA, size |-> None, quantity |-> 2],
      [product_id |-> IdB, size |-> Some("M"), quantity |-> 3],
      [product_id |-> Upper(IdC), size |-> None, quantity |-> 1],
      [product_id |-> IdA, size |-> None, quantity |-> -1],
      [product_id |-> IdAbsent, size |-> None, quantity |-> 2],
      [product_id |-> IdMalformed, size |-> None, quantity |-> 3] }

\* the items that come second in a request of two
SecondItemInputs == {i \in ItemInputs : i.quantity = 3}

CheckoutInputs ==
    {[email |-> "a@b.c", items |-> l] :
        l \in {<<>>} \cup {<<a>> : a \in ItemInputs}
                     \cup {<<a, b>> : a \in ItemInputs, b \in SecondItemInputs}}

----------------------------------------------------------------------------
(* Initial states *)

\* a catalog the store may hold before the first request
Catalog == <<
    [title |-> "Tee", price |-> 10000, category |-> "Streetwear",
     tags |-> <<"best", "new">>, _id |-> NewObjectId(10)],
    [title |-> "Cap", price |-> 5000, category |-> "Casual",
     tags |-> <<"new">>, _id |-> NewObjectId(11)],
    [title |-> "Sock", price |-> 1999, category |-> "Casual",
     tags |-> <<"best">>, _id |-> NewObjectId(12)] >>

NoRequest == [op |-> "none", arg |-> None]
NoResponse == [status |-> 0, body |-> None]

Init ==
    /\ db \in {"None", "conn"}
    /\ product \in (IF db = "None" THEN {<<>>} ELSE {<<>>, Catalog})
    /\ review = <<>>
    /\ order = <<>>
    /\ nextId = 10 + Len(product)
    /\ req = NoRequest
    /\ resp = NoResponse
    /\ ops = 0
    /\ pc = [p \in Procs |-> [at |-> "start", i |-> 0]]
    /\ seeded = [p \in Procs |-> "pending"]

Next ==
    \/ read_root
    \/ test_database
    \/ seed_products
    \/ \E t \in TagInputs, c \in CategoryInputs : list_products(t, c)
    \/ \E i \in IdInputs : get_product(i)
    \/ \E i \in IdInputs : get_reviews(i)
    \/ \E p \in ReviewInputs : create_review(p)
    \/ \E r \in CheckoutInputs : fast_checkout(r)

Spec == Init /\ [][Next]_vars

\* NumSeedRequests concurrent POST /seed requests against an empty product
\* collection
InitConc ==
    /\ db = "conn"
    /\ product = <<>>
    /\ review = <<>>
    /\ order = <<>>
    /\ nextId = 10
    /\ req = NoRequest
    /\ resp = NoResponse
    /\ ops = 0
    /\ pc = [p \in Procs |-> [at |-> "start", i |-> 0]]
    /\ seeded = [p \in Procs |-> "pending"]

NextConc ==
    \E p \in Procs :
        \/ SeedCount(p)
        \/ SeedInsert(p)
        \/ SeedReturn(p)

SpecConc == InitConc /\ [][NextConc]_vars

----------------------------------------------------------------------------
(* Vocabulary of the properties, defined on the store and not through the  *)
(* handlers' own helpers                                                   *)

Products == Range(product)

\* the id string names a product of the collection
Resolves(s) ==
    /\ Len(s) = IdLen
    /\ \A i \in DOMAIN s : s[i] \in HexDigits
    /\ \E d \in Products : \A i \in DOMAIN s : d._id[i] = HexValue[s[i]]

\* the product an id string that resolves names
ProductOf(s) ==
    CHOOSE d \in Products : \A i \in DOMAIN s : d._id[i] = HexValue[s[i]]

HasUnresolvable(items) == \E i \in DOMAIN items : ~Resolves(items[i].product_id)

RECURSIVE SumOfLines(_)
\* the sum of stored price x requested quantity over the items
SumOfLines(items) ==
    IF items = <<>> THEN 0
    ELSE ProductOf(Head(items).product_id).price * Head(items).quantity
         + SumOfLines(Tail(items))

\* x is the multiple of a hundredth nearest to t
NearestHundredth(x, t) ==
    /\ x % 10 = 0
    /\ 2 * (x - t) <= 10
    /\ 2 * (t - x) <= 10

LastOrder == order[Len(order)]

----------------------------------------------------------------------------
(* POST /checkout fails closed *)

\* a step that handles a checkout holding an id that does not resolve
C1_Step ==
    (/\ req'.op = "checkout"
     /\ db = "conn"
     /\ HasUnresolvable(req'.arg.items))
    => (resp'.status = 400 /\ order' = order)

\* C1: with the store available, a checkout request holding a product_id
\* that does not resolve to an existing product (malformed or absent, at any
\* position) is answered 400 and leaves the order collection as it was.
C1_CheckoutFailsClosed == [][C1_Step]_vars

\* a rejected checkout whose first item resolved and whose second did not
C1_Witness ==
    /\ req.op = "checkout"
    /\ db = "conn"
    /\ Len(req.arg.items) > 1
    /\ Resolves(req.arg.items[1].product_id)
    /\ ~Resolves(req.arg.items[Len(req.arg.items)].product_id)
    /\ resp.status = 400
    /\ order = <<>>

----------------------------------------------------------------------------
(* POST /checkout computes the total *)

\* C2: after a successful checkout the total of the response and the total of
\* the order just persisted are equal, and equal the sum over the requested
\* items of stored price x quantity, rounded to 2 decimals.
C2_CheckoutTotal ==
    (req.op = "checkout" /\ resp.status = 200)
    => /\ order # <<>>
       /\ resp.body.total = LastOrder.total
       /\ NearestHundredth(resp.body.total, SumOfLines(req.arg.items))

\* items (price 10, qty 2) and (price 5, qty 3) give total 35.00
C2_Witness ==
    /\ req.op = "checkout"
    /\ resp.status = 200
    /\ Len(req.arg.items) = 2
    /\ ProductOf(req.arg.items[1].product_id).price = 10000
    /\ req.arg.items[1].quantity = 2
    /\ ProductOf(req.arg.items[2].product_id).price = 5000
    /\ req.arg.items[2].quantity = 3
    /\ resp.body.total = 35000
    /\ LastOrder.total = 35000

\* a total that rounding changes: 1.999 is charged 2.00
C2_WitnessRounded ==
    /\ req.op = "checkout"
    /\ resp.status = 200
    /\ resp.body.total # SumOfLines(req.arg.items)

----------------------------------------------------------------------------
(* POST /reviews checks the product *)

C3_Step ==
    (/\ req'.op = "create_review"
     /\ db = "conn"
     /\ ~Resolves(req'.arg.product_id))
    => (resp'.status = 400 /\ review' = review)

C3_Referential == \A i \in DOMAIN review : Resolves(review[i].product_id)

\* C3: with the store available, POST /reviews with a product_id that names
\* no existing product is answered 400 and leaves the review collection as it
\* was; and every persisted review's product_id names a product of the
\* product collection.
C3_ReviewReferencesProduct == []C3_Referential /\ [][C3_Step]_vars

\* a review was persisted, and then one for a well-formed id of no product
\* was rejected
C3_Witness ==
    /\ req.op = "create_review"
    /\ db = "conn"
    /\ product # <<>>
    /\ ParseObjectId(req.arg.product_id).ok
    /\ ~Resolves(req.arg.product_id)
    /\ resp.status = 400
    /\ review # <<>>

----------------------------------------------------------------------------
(* POST /seed, requests served one after the other *)

\* every product is a sample product: the collection started empty
OnlySamples ==
    \A d \in Products : \E i \in DOMAIN sample : d.title = sample[i].title

C4_Step ==
    (req'.op = "seed" /\ db = "conn")
    => IF product = <<>>
       THEN /\ Len(product') = 3
            /\ \A i \in 1..3 : product'[i].title = sample[i].title
            /\ resp'.status = 200
            /\ resp'.body.seeded = TRUE
       ELSE /\ product' = product
            /\ review' = review
            /\ order' = order
            /\ resp'.status = 200
            /\ resp'.body.seeded = FALSE

C4_AtMostThree == OnlySamples => Len(product) <= 3

\* C4: POST /seed on an empty product collection inserts exactly the 3 sample
\* products and reports seeded=true; on a non-empty collection it changes
\* nothing and reports seeded=false; a collection that started empty never
\* holds more than 3 products.
C4_SeedIdempotent == []C4_AtMostThree /\ [][C4_Step]_vars

\* the second of two seed calls on a collection that started empty
C4_Witness ==
    /\ req.op = "seed"
    /\ resp.status = 200
    /\ resp.body.seeded = FALSE
    /\ OnlySamples
    /\ Len(product) = 3

----------------------------------------------------------------------------
(* GET /products/{product_id} *)

\* C5: with the store available, GET /products/{id} answers a malformed id
\* 400 without having queried the store, a well-formed id of no product 404,
\* and a well-formed id of a product 200 with that product, its _id written
\* as a string.
C5_GetProduct ==
    (req.op = "get_product" /\ db = "conn")
    => IF ~(Len(req.arg) = IdLen /\ \A i \in DOMAIN req.arg : req.arg[i] \in HexDigits)
       THEN resp.status = 400 /\ ops = 0
       ELSE IF ~Resolves(req.arg)
       THEN resp.status = 404
       ELSE /\ resp.status = 200
            /\ resp.body = [ProductOf(req.arg) EXCEPT !._id = StrOfId(@)]
            /\ \A i \in DOMAIN req.arg :
                   HexValue[resp.body._id[i]] = HexValue[req.arg[i]]
            /\ \A i \in DOMAIN req.arg : resp.body._id[i] \in Range(HexLower)

\* an id written in upper case finds its product, whose _id comes back in
\* lower case
C5_Witness ==
    /\ req.op = "get_product"
    /\ db = "conn"
    /\ resp.status = 200
    /\ resp.body._id # req.arg

\* a malformed id, rejected
C5_WitnessMalformed ==
    /\ req.op = "get_product"
    /\ db = "conn"
    /\ product # <<>>
    /\ resp.status = 400

\* a well-formed id of no product
C5_WitnessAbsent ==
    /\ req.op = "get_product"
    /\ db = "conn"
    /\ product # <<>>
    /\ resp.status = 404

----------------------------------------------------------------------------
(* The store handle is absent *)

\* C6: with the store handle absent, seed, get product, create review and
\* checkout answer 500, list products and list reviews answer an empty list,
\* no store operation is issued and nothing is persisted.
C6_StoreAbsent ==
    db = "None"
    => /\ req.op \in {"seed", "get_product", "create_review", "checkout"}
            => resp.status = 500
       /\ req.op \in {"list_products", "get_reviews"}
            => (resp.status = 200 /\ resp.body = <<>>)
       /\ ops = 0
       /\ product = <<>> /\ review = <<>> /\ order = <<>>

\* a checkout of no items, which would otherwise persist an order
C6_Witness ==
    /\ db = "None"
    /\ req.op = "checkout"
    /\ req.arg.items = <<>>
    /\ resp.status = 500

\* a list request answered with the empty list
C6_WitnessList ==
    /\ db = "None"
    /\ req.op = "list_products"
    /\ resp.body = <<>>

----------------------------------------------------------------------------
(* Persisted orders and the Order schema *)

\* C7: every persisted order has items of quantity >= 1 and unit_price >= 0,
\* a non-negative total and the status "created".
C7_OrderWithinSchema ==
    \A k \in DOMAIN order :
        /\ \A i \in DOMAIN order[k].items :
               order[k].items[i].quantity >= 1 /\ order[k].items[i].unit_price >= 0
        /\ order[k].total >= 0
        /\ order[k].status = "created"

----------------------------------------------------------------------------
(* Persisted reviews and the Review schema *)

\* C8: every persisted review has an integer rating in 1..5.
C8_RatingInRange == \A i \in DOMAIN review : review[i].rating \in 1..5

----------------------------------------------------------------------------
(* GET /products *)

Serialized(d) == [d EXCEPT !._id = StrOfId(@)]

BodyIsExactly(S) ==
    /\ {resp.body[i] : i \in DOMAIN resp.body} = {Serialized(d) : d \in S}
    /\ Len(resp.body) = Cardinality(S)

HasTag(d, t) == \E i \in DOMAIN d.tags : d.tags[i] = t

\* C9 as stated: GET /products returns exactly the stored products whose
\* category equals the value given and, when a tag is given too, whose tags
\* contain it (a filter is given when the parameter is present).
C9_ListProductsAsStated ==
    (req.op = "list_products" /\ db = "conn")
    => BodyIsExactly({d \in Products :
            /\ req.arg.category # None => d.category = req.arg.category[1]
            /\ req.arg.tag # None => HasTag(d, req.arg.tag[1])})

\* the list returned when a filter is a parameter present and not empty
C9_Listed ==
    (req.op = "list_products" /\ db = "conn")
    => BodyIsExactly({d \in Products :
            /\ Truthy(req.arg.category) => d.category = req.arg.category[1]
            /\ Truthy(req.arg.tag) => HasTag(d, req.arg.tag[1])})

C9_Step == req'.op = "list_products" => store' = store

\* C9, amended: GET /products returns exactly the stored products whose
\* category equals the category given, if one is given and not empty, and
\* whose tags contain the tag given, if one is given and not empty; an absent
\* or empty parameter does not filter; the store is left as it was.
C9_ListProducts == []C9_Listed /\ [][C9_Step]_vars

\* category and tag together select a proper, non-empty part of the catalog
C9_Witness ==
    /\ req.op = "list_products"
    /\ db = "conn"
    /\ Truthy(req.arg.category)
    /\ Truthy(req.arg.tag)
    /\ resp.body # <<>>
    /\ Len(resp.body) < Len(product)
    /\ \E d \in Products : d.category = req.arg.category[1] /\ ~HasTag(d, req.arg.tag[1])

----------------------------------------------------------------------------
(* POST /seed, requests served concurrently *)

\* C10: under any interleaving of concurrent POST /seed requests against an
\* initially empty product collection, the collection never holds more than
\* 3 products and at most one request reports seeded=true.
C10_ConcurrentSeed ==
    /\ Len(product) <= 3
    /\ Cardinality({p \in Procs : seeded[p] = "True"}) <= 1

====
